---- MODULE Spec2Model ----
(***************************************************************************)
(* Grad-CAM (src/src/gradcam.py): CamExtractor and GradCam.               *)
(*                                                                         *)
(* Tensors are records [shape |-> <<C, H, W>>, v |-> function] of the one  *)
(* batch element; 2D maps are [shape |-> <<rows, cols>>, v |-> function].  *)
(* Floating-point values are exact rationals [num, den]; den = 0 is the    *)
(* IEEE result of 0/0 (NaN).  Python's None is the record NoTensor / the   *)
(* string "None".                                                          *)
(***************************************************************************)
EXTENDS Integers, Sequences, FiniteSets, TLC

\* Number of generate_cam calls made on one instance in the sequential runs.
MaxQueries == 3

Threads == {1, 2}

NoTensor == [shape |-> <<0, 0, 0>>, v |-> <<>>]
NoMap == [shape |-> <<0, 0>>, v |-> <<>>]
NoQuery == <<0, 0>>
NoGradient == [by |-> NoQuery, g |-> NoTensor]

Idx3(shape) == (1..shape[1]) \X (1..shape[2]) \X (1..shape[3])
Idx2(shape) == (1..shape[1]) \X (1..shape[2])

RECURSIVE SumF(_, _)
SumF(f, S) ==
    IF S = {} THEN 0
    ELSE LET e == CHOOSE e \in S : TRUE IN f[e] + SumF(f, S \ {e})

Max2(a, b) == IF a >= b THEN a ELSE b

(***************************************************************************)
(* The environment: input images and the models handed to GradCam.         *)
(***************************************************************************)
MkImage(H, W, px) ==
    [shape |-> <<1, H, W>>,
     v |-> [i \in Idx3(<<1, H, W>>) |-> px[(i[2] - 1) * W + i[3]]]]

\* 1x2, not square, not constant
ImgWide == MkImage(1, 2, <<2, -1>>)
\* 2x2, square, not constant
ImgSquare == MkImage(2, 2, <<2, 0, 1, -1>>)

Images == {ImgWide, ImgSquare}

\* 1x1 convolution from 1 to 2 channels: out[c] = ConvK[c] * in + ConvB[c]
ConvK == <<1, -1>>
ConvB == <<0, 1>>

\* class-score weights of the heads, one row per class, one column per feature
HeadW(head) ==
    IF head = "fc" THEN << <<1, 0>>, <<1, -2>> >>
    ELSE << <<0, 1>>, <<2, 1>> >>

NumClasses(head) == Len(HeadW(head))

\* sub-module(x): the layers the body may be made of
Apply(layer, x) ==
    CASE layer = "conv" ->
           LET s == <<Len(ConvK), x.shape[2], x.shape[3]>> IN
           [shape |-> s,
            v |-> [i \in Idx3(s) |-> ConvK[i[1]] * x.v[<<1, i[2], i[3]>>] + ConvB[i[1]]]]
      [] layer = "relu" ->
           [shape |-> x.shape, v |-> [i \in Idx3(x.shape) |-> Max2(x.v[i], 0)]]
      [] layer = "pool" ->
           LET s == <<x.shape[1], 1, 1>> IN
           [shape |-> s,
            v |-> [i \in Idx3(s) |->
                     SumF(x.v, {j \in Idx3(x.shape) : j[1] = i[1]})]]

\* autograd through one layer: gradient w.r.t. the layer's input xin, given
\* the gradient g w.r.t. its output
Backprop(layer, xin, g) ==
    CASE layer = "conv" ->
           [shape |-> xin.shape,
            v |-> [i \in Idx3(xin.shape) |->
                     SumF([c \in 1..Len(ConvK) |-> ConvK[c] * g.v[<<c, i[2], i[3]>>]],
                          1..Len(ConvK))]]
      [] layer = "relu" ->
           [shape |-> xin.shape,
            v |-> [i \in Idx3(xin.shape) |-> IF xin.v[i] > 0 THEN g.v[i] ELSE 0]]
      [] layer = "pool" ->
           [shape |-> xin.shape,
            v |-> [i \in Idx3(xin.shape) |-> g.v[<<i[1], 1, 1>>]]]

\* x.view(x.size(0), -1): row-major flattening of (C, H, W)
Flatten(x) ==
    LET H == x.shape[2]
        W == x.shape[3]
    IN [n \in 1..(x.shape[1] * H * W) |->
          x.v[<<((n - 1) \div (H * W)) + 1,
                (((n - 1) % (H * W)) \div W) + 1,
                ((n - 1) % W) + 1>>]]

Unflatten(f, shape) ==
    [shape |-> shape,
     v |-> [i \in Idx3(shape) |->
              f[(i[1] - 1) * shape[2] * shape[3] + (i[2] - 1) * shape[3] + i[3]]]]

\* head(features) and head(features, label); label is the target class, and
\* the label-conditioned head subtracts a margin of 1 from the labelled class
HeadForward(head, features, withLabel, label) ==
    [n \in 1..NumClasses(head) |->
        SumF([i \in 1..Len(features) |-> HeadW(head)[n][i] * features[i]],
             1..Len(features))
        - (IF withLabel /\ label = n - 1 THEN 1 ELSE 0)]

\* the call signature each head accepts: "fc" is forward(x), "arc" is
\* forward(x, label); any other call raises TypeError
HeadAccepts(head, withLabel) == (head = "arc") <=> withLabel

\* gradient of sum(seed * scores) w.r.t. the flattened features
HeadBackward(head, seed, nfeat) ==
    [i \in 1..nfeat |->
        SumF([n \in 1..Len(seed) |-> seed[n] * HeadW(head)[n][i]], 1..Len(seed))]

(***************************************************************************)
(* The numeric steps of GradCam.generate_cam (lines 123-139).              *)
(***************************************************************************)
\* -guided_gradients
Negate(g) == [shape |-> g.shape, v |-> [i \in Idx3(g.shape) |-> 0 - g.v[i]]]

\* np.mean(guided_gradients, axis=(1, 2)): one rational weight per channel
Weights(g) ==
    [c \in 1..g.shape[1] |->
        [num |-> SumF(g.v, {j \in Idx3(g.shape) : j[1] = c}),
         den |-> g.shape[2] * g.shape[3]]]

\* cam = ones(target.shape[1:]); for i, w in enumerate(weights): cam += w * target[i]
Accumulate(weights, target) ==
    LET s == <<target.shape[2], target.shape[3]>>
        d == weights[1].den
    IN [shape |-> s,
        v |-> [p \in Idx2(s) |->
                 [num |-> d + SumF([c \in 1..Len(weights) |->
                                      weights[c].num * target.v[<<c, p[1], p[2]>>]],
                                   1..Len(weights)),
                  den |-> d]]]

\* np.maximum(cam, 0)
Rectify(cam) ==
    [shape |-> cam.shape,
     v |-> [p \in Idx2(cam.shape) |-> [num |-> Max2(cam.v[p].num, 0), den |-> cam.v[p].den]]]

MinNum(cam) ==
    CHOOSE m \in {cam.v[p].num : p \in Idx2(cam.shape)} :
        \A p \in Idx2(cam.shape) : m <= cam.v[p].num

MaxNum(cam) ==
    CHOOSE m \in {cam.v[p].num : p \in Idx2(cam.shape)} :
        \A p \in Idx2(cam.shape) : m >= cam.v[p].num

\* (cam - np.min(cam)) / (np.max(cam) - np.min(cam)); the common denominator
\* of the entries cancels, and max = min leaves 0/0
Normalize(cam) ==
    LET mn == MinNum(cam)
        mx == MaxNum(cam)
    IN [shape |-> cam.shape,
        v |-> [p \in Idx2(cam.shape) |-> [num |-> cam.v[p].num - mn, den |-> mx - mn]]]

IsNaN(q) == q.den = 0

HasNaN(cam) == \E p \in Idx2(cam.shape) : IsNaN(cam.v[p])

\* what a float NaN becomes when cast to uint8: undefined in C; 0 with the
\* SSE/NEON conversions, 255 with the AVX-512 unsigned conversion
NaNCastOutcomes == {0, 255}

\* np.uint8(cam * 255): truncation toward zero, kept to 8 bits
Quantize(cam, nanCast) ==
    [shape |-> cam.shape,
     v |-> [p \in Idx2(cam.shape) |->
              IF IsNaN(cam.v[p]) THEN nanCast
              ELSE ((255 * cam.v[p].num) \div cam.v[p].den) % 256]]

\* Image.fromarray(cam): an array of shape (rows, cols) is an image of
\* size (width, height) = (cols, rows); pixels are addressed <<x, y>>
FromArray(a) ==
    [size |-> <<a.shape[2], a.shape[1]>>,
     px |-> [q \in (1..a.shape[2]) \X (1..a.shape[1]) |-> a.v[<<q[2], q[1]>>]]]

\* Image.resize(size): size is (width, height).  The resampling kernel is
\* nearest-neighbour here; like the antialiasing one it keeps 0..255.
PILResize(img, size) ==
    [size |-> size,
     px |-> [q \in (1..size[1]) \X (1..size[2]) |->
               img.px[<<(((q[1] - 1) * img.size[1]) \div size[1]) + 1,
                        (((q[2] - 1) * img.size[2]) \div size[2]) + 1>>]]]

\* np.uint8(image): an image of size (width, height) is an array of shape
\* (height, width)
AsArray(img) ==
    [shape |-> <<img.size[2], img.size[1]>>,
     v |-> [p \in (1..img.size[2]) \X (1..img.size[1]) |-> img.px[<<p[2], p[1]>>]]]

\* the size handed to resize: (input_image.shape[2], input_image.shape[3]);
\* input_image.shape is (1, C, H, W)
ResizeTarget(input_image) == <<input_image.shape[2], input_image.shape[3]>>

\* np.uint8(Image.fromarray(cam).resize(...)) / 255
ResizeToInput(cam, input_image) ==
    LET a == AsArray(PILResize(FromArray(cam), ResizeTarget(input_image)))
    IN [shape |-> a.shape,
        v |-> [p \in Idx2(a.shape) |-> [num |-> a.v[p], den |-> 255]]]

(***************************************************************************)
(* GradCam.__init__ (lines 82-96).                                         *)
(***************************************************************************)
\* the (model, separate_head) pairs GradCam is constructed with: a whole
\* classifier whose last child is the head, and a body with a separate
\* label-conditioned head
Constructions ==
    {[children |-> <<"conv", "relu", "pool", "fc">>, separate_head |-> "None"],
     [children |-> <<"conv", "pool">>, separate_head |-> "arc"]}

FeedTargetArgs == {"None", "True", "False"}

TargetLayers == -1..3

TargetClasses == -1..2

\* the default taken after the head has been split off (lines 87-89 first)
ResolveFeedTarget_AfterSplit(separate_head, feed_target) ==
    IF feed_target = "None" THEN TRUE ELSE feed_target = "True"

\* lines 84-85
ResolveFeedTarget(separate_head, feed_target) ==
    IF feed_target = "None" THEN separate_head # "None" ELSE feed_target = "True"

\* line 88 and the given head otherwise
SplitHead(children, separate_head) ==
    IF separate_head = "None" THEN children[Len(children)] ELSE separate_head

\* line 89 and the given model otherwise
SplitBody(children, separate_head) ==
    IF separate_head = "None" THEN SubSeq(children, 1, Len(children) - 1) ELSE children

(***************************************************************************)
(* State.                                                                  *)
(***************************************************************************)
VARIABLES
    ctor,             \* the arguments GradCam was constructed with
    model,            \* self.model: the body's children, in order
    separate_head,    \* self.separate_head / extractor.head
    target_layer,     \* extractor.target_layer
    feed_target,      \* extractor.feed_target
    nan_cast,         \* what this build makes of np.uint8(NaN)
    gradients,        \* extractor.gradients, tagged with the query whose backward pass stored it
    headGrad,         \* queries whose backward pass is accumulated in the head's .grad buffers
    bodyGrad,         \* queries whose backward pass is accumulated in the body's .grad buffers
    nq,               \* number of generate_cam calls each caller has made so far
    first,            \* identity, arguments and result of the first call that returned
    pc,               \* per call in flight: where it is in generate_cam
    qid,              \* its identity: <<caller, number of the call>>
    args,             \* input_image, target_class, counterfactual
    module_pos,       \* loop index of forward_pass_on_convolutions
    x,                \* running activation
    acts,             \* the autograd graph: the output of every layer applied
    applied,          \* positions of the sub-modules applied, in order
    hooks,            \* layers (1-based) on whose output a hook was registered
    conv_output,      \* activation captured at the target layer
    headArgs,         \* how the head was called: "x" or "x,target"
    model_output,     \* class scores
    one_hot_output,   \* gradient seed
    backwardRan,      \* model_output.backward was called
    guided_gradients, \* gradient read from the extractor
    cam,              \* accumulator, then normalised map
    quantized,        \* np.uint8(cam * 255)
    result,           \* returned array
    error,            \* exception that ended the call
    overlapped        \* another call was in flight at some point of this one

config == <<ctor, model, separate_head, target_layer, feed_target, nan_cast>>
shared == <<gradients, headGrad, bodyGrad, nq, first>>
fwdvars == <<module_pos, x, acts, applied, hooks, conv_output>>
headvars == <<headArgs, model_output>>
backvars == <<one_hot_output, backwardRan, guided_gradients>>
postvars == <<cam, quantized, result>>
vars == <<config, shared, pc, qid, args, fwdvars, headvars, backvars, postvars, error, overlapped>>

NoArgs == [input_image |-> NoTensor, target_class |-> 0, counterfactual |-> FALSE]
NoFirst == [by |-> NoQuery, in |-> NoArgs, out |-> NoMap]

InFlight(t) == pc[t] \notin {"idle", "returned", "failed"}

Init ==
    /\ \E c \in Constructions, ft \in FeedTargetArgs :
          /\ ctor = [children |-> c.children, separate_head |-> c.separate_head,
                     feed_target |-> ft]
          /\ model = SplitBody(c.children, c.separate_head)
          /\ separate_head = SplitHead(c.children, c.separate_head)
          /\ feed_target = ResolveFeedTarget(c.separate_head, ft)
    /\ target_layer \in TargetLayers
    /\ nan_cast \in NaNCastOutcomes
    /\ gradients = NoGradient
    /\ headGrad = {}
    /\ bodyGrad = {}
    /\ nq = [t \in Threads |-> 0]
    /\ first = NoFirst
    /\ pc = [t \in Threads |-> "idle"]
    /\ qid = [t \in Threads |-> NoQuery]
    /\ args = [t \in Threads |-> NoArgs]
    /\ module_pos = [t \in Threads |-> 0]
    /\ x = [t \in Threads |-> NoTensor]
    /\ acts = [t \in Threads |-> <<>>]
    /\ applied = [t \in Threads |-> <<>>]
    /\ hooks = [t \in Threads |-> <<>>]
    /\ conv_output = [t \in Threads |-> NoTensor]
    /\ headArgs = [t \in Threads |-> "None"]
    /\ model_output = [t \in Threads |-> <<>>]
    /\ one_hot_output = [t \in Threads |-> <<>>]
    /\ backwardRan = [t \in Threads |-> FALSE]
    /\ guided_gradients = [t \in Threads |-> NoGradient]
    /\ cam = [t \in Threads |-> NoMap]
    /\ quantized = [t \in Threads |-> NoMap]
    /\ result = [t \in Threads |-> NoMap]
    /\ error = [t \in Threads |-> "None"]
    /\ overlapped = [t \in Threads |-> FALSE]

Fail(t, e) ==
    /\ pc' = [pc EXCEPT ![t] = "failed"]
    /\ error' = [error EXCEPT ![t] = e]

(***************************************************************************)
(* CamExtractor (lines 28-75).                                             *)
(***************************************************************************)
\* a hook that adds to what is stored, as .grad buffers do
save_gradient_Accumulate(old, grad) ==
    IF old = NoGradient \/ old.g.shape # grad.g.shape THEN grad
    ELSE [by |-> old.by,
          g |-> [shape |-> grad.g.shape,
                 v |-> [i \in Idx3(grad.g.shape) |-> old.g.v[i] + grad.g.v[i]]]]

\* a hook that stores only when nothing is stored yet
save_gradient_KeepFirst(old, grad) == IF old = NoGradient THEN grad ELSE old

\* line 45
save_gradient(old, grad) == grad

\* the target layer counted from 1
AtTargetLayer_OneBased(pos, target) == pos + 1 = target

\* line 57: int(module_pos) == self.target_layer, module_pos counted from 0
AtTargetLayer(pos, target) == pos = target

\* generate_cam is called: lines 98-107 up to the first layer
Start(t) ==
    /\ pc[t] = "idle"
    /\ nq[t] < MaxQueries
    /\ \E img \in Images, tc \in TargetClasses, cf \in BOOLEAN :
          /\ args' = [args EXCEPT ![t] = [input_image |-> img, target_class |-> tc,
                                          counterfactual |-> cf]]
          /\ x' = [x EXCEPT ![t] = img]
    /\ nq' = [nq EXCEPT ![t] = @ + 1]
    /\ qid' = [qid EXCEPT ![t] = <<t, nq[t] + 1>>]
    /\ pc' = [pc EXCEPT ![t] = "forward"]
    /\ overlapped' = [u \in Threads |->
                        IF u = t THEN \E o \in Threads \ {t} : InFlight(o)
                        ELSE overlapped[u] \/ InFlight(u)]
    /\ UNCHANGED <<config, gradients, headGrad, bodyGrad, first, module_pos, acts,
                   applied, hooks, conv_output, headvars, backvars, postvars, error>>

\* one iteration of the loop of forward_pass_on_convolutions (lines 53-60)
ForwardLayer(t) ==
    /\ pc[t] = "forward"
    /\ module_pos[t] < Len(model)
    /\ LET y == Apply(model[module_pos[t] + 1], x[t]) IN
          /\ x' = [x EXCEPT ![t] = y]
          /\ acts' = [acts EXCEPT ![t] = Append(@, y)]
          /\ applied' = [applied EXCEPT ![t] = Append(@, module_pos[t])]
          /\ IF AtTargetLayer(module_pos[t], target_layer)
             THEN /\ hooks' = [hooks EXCEPT ![t] = Append(@, module_pos[t] + 1)]
                  /\ conv_output' = [conv_output EXCEPT ![t] = y]
             ELSE UNCHANGED <<hooks, conv_output>>
    /\ module_pos' = [module_pos EXCEPT ![t] = @ + 1]
    /\ UNCHANGED <<config, shared, pc, qid, args, headvars, backvars, postvars, error, overlapped>>

\* the rest of forward_pass (lines 69-75): flatten, call the head
HeadCall(t) ==
    /\ pc[t] = "forward"
    /\ module_pos[t] = Len(model)
    /\ headArgs' = [headArgs EXCEPT ![t] = IF feed_target THEN "x,target" ELSE "x"]
    /\ IF HeadAccepts(separate_head, feed_target)
       THEN /\ model_output' = [model_output EXCEPT ![t] =
                                   HeadForward(separate_head, Flatten(x[t]), feed_target,
                                               args[t].target_class)]
            /\ pc' = [pc EXCEPT ![t] = "onehot"]
            /\ UNCHANGED error
       ELSE /\ Fail(t, "TypeError")
            /\ UNCHANGED model_output
    /\ UNCHANGED <<config, shared, qid, args, fwdvars, backvars, postvars, overlapped>>

(***************************************************************************)
(* GradCam.generate_cam (lines 98-146).                                    *)
(***************************************************************************)
\* one_hot_output[0][target_class]: an index from -size to size - 1 is in
\* bounds, a negative one counting from the end
IndexInBounds(index, size) == -size <= index /\ index < size

WrapIndex(index, size) == IF index < 0 THEN index + size ELSE index

\* lines 113-114
BuildOneHot(t) ==
    /\ pc[t] = "onehot"
    /\ LET n == Len(model_output[t])
           tc == args[t].target_class
       IN IF IndexInBounds(tc, n)
          THEN /\ one_hot_output' = [one_hot_output EXCEPT ![t] =
                      [k \in 1..n |-> IF k = WrapIndex(tc, n) + 1 THEN 1 ELSE 0]]
               /\ pc' = [pc EXCEPT ![t] = "zero_grad"]
               /\ UNCHANGED error
          ELSE /\ Fail(t, "IndexError")
               /\ UNCHANGED one_hot_output
    /\ UNCHANGED <<config, shared, qid, args, fwdvars, headvars, backwardRan,
                   guided_gradients, postvars, overlapped>>

\* what zero_grad is called on (line 119; the body's is commented out, line 118)
ZeroedBodyGrad(old) == old

ZeroedHeadGrad(old) == {}

ZeroGrad(t) ==
    /\ pc[t] = "zero_grad"
    /\ headGrad' = ZeroedHeadGrad(headGrad)
    /\ bodyGrad' = ZeroedBodyGrad(bodyGrad)
    /\ pc' = [pc EXCEPT ![t] = "backward"]
    /\ UNCHANGED <<config, gradients, nq, first, qid, args, fwdvars, headvars, backvars,
                   postvars, error, overlapped>>

\* autograd: gradient w.r.t. the output of body layer j (1-based), given the
\* gradient gOut w.r.t. the body's final output and the saved activations
RECURSIVE GradAt(_, _, _, _)
GradAt(body, saved, j, gOut) ==
    IF j >= Len(body) THEN gOut
    ELSE Backprop(body[j + 1], saved[j], GradAt(body, saved, j + 1, gOut))

\* the hooks registered in this forward pass fire as the backward pass
\* reaches their tensors, deepest layer first; each calls save_gradient
RECURSIVE FireHooks(_, _, _, _, _, _)
FireHooks(old, hs, body, saved, gOut, q) ==
    IF hs = <<>> THEN old
    ELSE FireHooks(save_gradient(old, [by |-> q, g |-> GradAt(body, saved, hs[Len(hs)], gOut)]),
                   SubSeq(hs, 1, Len(hs) - 1), body, saved, gOut, q)

\* line 121: model_output.backward(gradient=one_hot_output, retain_graph=True)
Backward(t) ==
    /\ pc[t] = "backward"
    /\ LET last == acts[t][Len(acts[t])]
           gOut == Unflatten(HeadBackward(separate_head, one_hot_output[t],
                                          Len(Flatten(last))), last.shape)
       IN gradients' = FireHooks(gradients, hooks[t], model, acts[t], gOut, qid[t])
    /\ headGrad' = headGrad \cup {qid[t]}
    /\ bodyGrad' = bodyGrad \cup {qid[t]}
    /\ backwardRan' = [backwardRan EXCEPT ![t] = TRUE]
    /\ pc' = [pc EXCEPT ![t] = "read"]
    /\ UNCHANGED <<config, nq, first, qid, args, fwdvars, headvars, one_hot_output,
                   guided_gradients, postvars, error, overlapped>>

\* lines 123-125: self.extractor.gradients.data ... ; None has no .data
ReadGradients(t) ==
    /\ pc[t] = "read"
    /\ IF gradients = NoGradient
       THEN /\ Fail(t, "AttributeError")
            /\ UNCHANGED guided_gradients
       ELSE /\ guided_gradients' = [guided_gradients EXCEPT ![t] =
                   [by |-> gradients.by,
                    g |-> IF args[t].counterfactual THEN Negate(gradients.g)
                          ELSE gradients.g]]
            /\ pc' = [pc EXCEPT ![t] = "accumulate"]
            /\ UNCHANGED error
    /\ UNCHANGED <<config, shared, qid, args, fwdvars, headvars, one_hot_output,
                   backwardRan, postvars, overlapped>>

\* lines 127-135: conv_output.data ... ; weights, accumulation, rectification
AccumulateCam(t) ==
    /\ pc[t] = "accumulate"
    /\ IF conv_output[t] = NoTensor
       THEN /\ Fail(t, "AttributeError")
            /\ UNCHANGED cam
       ELSE /\ cam' = [cam EXCEPT ![t] =
                   Rectify(Accumulate(Weights(guided_gradients[t].g), conv_output[t]))]
            /\ pc' = [pc EXCEPT ![t] = "normalize"]
            /\ UNCHANGED error
    /\ UNCHANGED <<config, shared, qid, args, fwdvars, headvars, backvars, quantized,
                   result, overlapped>>

\* lines 136-146: normalisation, quantisation, resize, return
FinishCam(t) ==
    /\ pc[t] = "normalize"
    /\ LET n == Normalize(cam[t])
           q == Quantize(n, nan_cast)
           r == ResizeToInput(q, args[t].input_image)
       IN /\ cam' = [cam EXCEPT ![t] = n]
          /\ quantized' = [quantized EXCEPT ![t] = q]
          /\ result' = [result EXCEPT ![t] = r]
          /\ first' = IF first = NoFirst THEN [by |-> qid[t], in |-> args[t], out |-> r]
                      ELSE first
    /\ pc' = [pc EXCEPT ![t] = "returned"]
    /\ UNCHANGED <<config, gradients, headGrad, bodyGrad, nq, qid, args, fwdvars,
                   headvars, backvars, error, overlapped>>

\* the caller makes its next call: the frame of the finished one is gone
NextQuery(t) ==
    /\ pc[t] \in {"returned", "failed"}
    /\ nq[t] < MaxQueries
    /\ pc' = [pc EXCEPT ![t] = "idle"]
    /\ args' = [args EXCEPT ![t] = NoArgs]
    /\ module_pos' = [module_pos EXCEPT ![t] = 0]
    /\ x' = [x EXCEPT ![t] = NoTensor]
    /\ acts' = [acts EXCEPT ![t] = <<>>]
    /\ applied' = [applied EXCEPT ![t] = <<>>]
    /\ hooks' = [hooks EXCEPT ![t] = <<>>]
    /\ conv_output' = [conv_output EXCEPT ![t] = NoTensor]
    /\ headArgs' = [headArgs EXCEPT ![t] = "None"]
    /\ model_output' = [model_output EXCEPT ![t] = <<>>]
    /\ one_hot_output' = [one_hot_output EXCEPT ![t] = <<>>]
    /\ backwardRan' = [backwardRan EXCEPT ![t] = FALSE]
    /\ guided_gradients' = [guided_gradients EXCEPT ![t] = NoGradient]
    /\ cam' = [cam EXCEPT ![t] = NoMap]
    /\ quantized' = [quantized EXCEPT ![t] = NoMap]
    /\ result' = [result EXCEPT ![t] = NoMap]
    /\ error' = [error EXCEPT ![t] = "None"]
    /\ overlapped' = [overlapped EXCEPT ![t] = FALSE]
    /\ UNCHANGED <<config, shared, qid>>

Step(t) ==
    \/ Start(t)
    \/ ForwardLayer(t)
    \/ HeadCall(t)
    \/ BuildOneHot(t)
    \/ ZeroGrad(t)
    \/ Backward(t)
    \/ ReadGradients(t)
    \/ AccumulateCam(t)
    \/ FinishCam(t)

\* one caller, one call after the other
Next == Step(1) \/ NextQuery(1)

Spec == Init /\ [][Next]_vars

\* two callers sharing the instance, one call each, steps interleaved
NextInterleaved == \E t \in Threads : Step(t)

\* constructed as the entry point does (line 155): GradCam(model, target_layer)
\* with a target layer inside the body
InitInterleaved ==
    /\ Init
    /\ ctor.separate_head = "None"
    /\ ctor.feed_target = "None"
    /\ target_layer \in 0..(Len(model) - 1)

SpecInterleaved == InitInterleaved /\ [][NextInterleaved]_vars

(***************************************************************************)
(* Properties.                                                             *)
(***************************************************************************)
Done(t) == pc[t] \in {"returned", "failed"}

ValidLayer == target_layer \in 0..(Len(model) - 1)

\* the target class is an index 0..N-1 of the class scores
ValidClass(t) ==
    model_output[t] # <<>> /\ args[t].target_class \in 0..(Len(model_output[t]) - 1)

ImageH(img) == img.shape[2]
ImageW(img) == img.shape[3]

\* C1: the returned array has shape (H, W) of the input image, also when
\* H # W.
C1_ShapeIsInputHW ==
    \A t \in Threads :
        (pc[t] = "returned" /\ ValidClass(t)) =>
            result[t].shape = <<ImageH(args[t].input_image), ImageW(args[t].input_image)>>

\* C1, the part the code satisfies: a square input gets a map of its own shape.
C1_SquareShapeReached ==
    \E t \in Threads :
        /\ pc[t] = "returned"
        /\ ImageH(args[t].input_image) = ImageW(args[t].input_image)
        /\ result[t].shape = <<ImageH(args[t].input_image), ImageW(args[t].input_image)>>

\* C2: with a target layer that matches no body position, a call for a valid
\* class, once it gets to read the captured gradient, ends in the explicit error
\* "no activation captured at target layer".
C2_InvalidLayerExplicitError ==
    \A t \in Threads :
        (~ValidLayer /\ ValidClass(t) /\ backwardRan[t] /\ Done(t)) =>
            (pc[t] = "failed" /\ error[t] = "NoActivationCaptured")

\* C3: a target class outside 0..N-1 (negative ones included) ends the call
\* with an index error when the one-hot seed is built; no backward pass runs
\* and no CAM is returned.
C3_OutOfRangeClassRejected ==
    \A t \in Threads :
        (/\ model_output[t] # <<>>
         /\ pc[t] # "onehot"
         /\ args[t].target_class \notin 0..(Len(model_output[t]) - 1)) =>
            (pc[t] = "failed" /\ error[t] = "IndexError" /\ ~backwardRan[t])

\* C4: no NaN leaves the normalisation step, also when the rectified
\* accumulator is constant (max = min).
C4_NoNaNAfterNormalization ==
    \A t \in Threads : (pc[t] = "returned" /\ ValidClass(t)) => ~HasNaN(cam[t])

\* C5: a call with the same image, class and counterfactual flag as the
\* first call that returned on this instance returns the same array,
\* whatever calls were made in between.
C5_SameQuerySameResult ==
    \A t \in Threads :
        (pc[t] = "returned" /\ first # NoFirst /\ first.in = args[t]) =>
            result[t] = first.out

\* C5: the third call repeats the arguments of the first one, after a second
\* call that ran its backward pass, and returns a map that is not degenerate.
C5_RepeatedQueryReturned ==
    \E t \in Threads :
        /\ pc[t] = "returned"
        /\ first.in = args[t]
        /\ first.by = <<t, 1>>
        /\ qid[t] = <<t, 3>>
        /\ <<t, 2>> \in bodyGrad
        /\ ~HasNaN(cam[t])

\* C6: after a call, no gradient buffer of the body or the head holds a
\* contribution of an earlier call.
C6_NoGradFromEarlierQuery ==
    \A t \in Threads :
        pc[t] = "returned" => (headGrad \subseteq {qid[t]} /\ bodyGrad \subseteq {qid[t]})

\* C7: the head is called with the label exactly when the flag resolved at
\* construction is true: the explicit feed_target if given, else true
\* exactly when a separate head was supplied.
C7_LabelFedIffFlag ==
    LET expected ==
            CASE ctor.feed_target = "True" -> TRUE
              [] ctor.feed_target = "False" -> FALSE
              [] ctor.feed_target = "None" /\ ctor.separate_head = "None" -> FALSE
              [] ctor.feed_target = "None" /\ ctor.separate_head # "None" -> TRUE
    IN /\ feed_target = expected
       /\ \A t \in Threads :
              headArgs[t] # "None" => (headArgs[t] = "x,target" <=> expected)

\* C7: a separate head, no explicit flag, and the head was called with the label.
C7_SeparateHeadFedLabel ==
    \E t \in Threads :
        /\ pc[t] = "returned"
        /\ ctor.feed_target = "None"
        /\ ctor.separate_head # "None"
        /\ headArgs[t] = "x,target"

\* the output of the n-th body sub-module for this input
RECURSIVE ComposedOutput(_, _, _)
ComposedOutput(body, input, n) ==
    IF n = 0 THEN input ELSE Apply(body[n], ComposedOutput(body, input, n - 1))

\* C8: once the loop of forward_pass_on_convolutions is over, every body
\* sub-module has been applied once, in order; the running activation is
\* the last sub-module's output; for a target index k inside the body one
\* hook is registered and the captured activation is sub-module k's output.
C8_ForwardPassOnConvolutions ==
    \A t \in Threads :
        (pc[t] # "idle" /\ module_pos[t] = Len(model)) =>
            /\ applied[t] = [i \in 1..Len(model) |-> i - 1]
            /\ x[t] = ComposedOutput(model, args[t].input_image, Len(model))
            /\ IF ValidLayer
               THEN /\ hooks[t] = <<target_layer + 1>>
                    /\ conv_output[t] =
                          ComposedOutput(model, args[t].input_image, target_layer + 1)
               ELSE /\ hooks[t] = <<>>
                    /\ conv_output[t] = NoTensor

\* C8: target index 0 captured the first sub-module's output and the loop
\* went on to the end of a longer body.
C8_FirstLayerCaptured ==
    \E t \in Threads :
        /\ pc[t] = "forward"
        /\ target_layer = 0
        /\ Len(model) > 1
        /\ module_pos[t] = Len(model)
        /\ conv_output[t] = Apply(model[1], args[t].input_image)
        /\ conv_output[t] # x[t]

\* C9 as stated: between calls the Extractor holds no captured gradient.
C9_GradientDiscardedAfterQuery ==
    \A t \in Threads : Done(t) => gradients = NoGradient

\* C9 as amended: after a call has returned the Extractor still holds the
\* gradient that call's backward pass captured, and a call run after others
\* reads only the gradient its own backward pass captured.
C9_GradientKeptButNotReused ==
    \A t \in Threads :
        /\ pc[t] = "returned" => (gradients # NoGradient /\ gradients.by = qid[t])
        /\ guided_gradients[t] # NoGradient => guided_gradients[t].by = qid[t]

\* C9: a call returned on an instance on which an earlier, different call
\* had returned and left its gradient.
C9_LaterQueryReturned ==
    \E t \in Threads :
        /\ pc[t] = "returned"
        /\ first # NoFirst
        /\ first.by # qid[t]
        /\ first.in.target_class # args[t].target_class
        /\ gradients.by = qid[t]

\* C10: a call during which no other call was in flight computes its
\* weights from the gradient of its own backward pass.
C10_SequentialReadsOwnGradient ==
    \A t \in Threads :
        (guided_gradients[t] # NoGradient /\ ~overlapped[t]) =>
            guided_gradients[t].by = qid[t]

\* C10: with interleaved steps, a call has computed its weights from the
\* gradient captured by the other call's backward pass, and returned.
C10_ForeignGradientRead ==
    \E t \in Threads :
        /\ pc[t] = "returned"
        /\ overlapped[t]
        /\ guided_gradients[t].by # qid[t]
        /\ \E u \in Threads \ {t} :
              /\ guided_gradients[t].by = qid[u]
              /\ args[u].target_class # args[t].target_class

====
